---- MODULE Spec2Model ----
(***************************************************************************)
(* Model of pysindy/optimizers/trapping_sr3.py: the TrappingSR3 optimizer. *)
(*                                                                         *)
(* Three parts, each with its own specification over the same variables:   *)
(*   SpecCfg   construction and set_params (the __post_init_guard checks)  *)
(*   Spec      the alternating-minimisation driver _reduce                 *)
(*   SpecCons  the constraint builder _make_constraints and the quadratic  *)
(*             projection tensor _build_PQ, applied to coefficient         *)
(*             matrices                                                    *)
(*                                                                         *)
(* Numbers are integers.  Floating point magnitudes are scaled: 1e20, the  *)
(* default of eta, is EtaDefault, and eta * 1e-2 is eta \div 100.          *)
(* Optional numeric parameters are None (the empty tuple) or Some(x).      *)
(* Matrices are tuples of rows; certificate matrices are 2 x 2.            *)
(***************************************************************************)
EXTENDS Integers, Sequences, FiniteSets, TLC

\* ---------------------------------------------------------------- bounds
\* largest max_iter a fit is configured with
MaxIter == 2
\* largest number of targets the constraint builder is run for
MaxR == 4
\* largest number of nonzero entries of a coefficient matrix the constraint
\* rows are applied to
MaxNonzero == 2
\* calls of fit on one optimizer
MaxFits == 2

\* ------------------------------------------------------- values and helpers
None == <<>>
Some(x) == <<x>>
Val(o) == o[1]

Abs(x) == IF x < 0 THEN -x ELSE x

RECURSIVE SumSeq(_)
SumSeq(s) == IF s = <<>> THEN 0 ELSE Head(s) + SumSeq(Tail(s))

\* all entries of a matrix, row after row
RECURSIVE Flatten(_)
Flatten(M) == IF M = <<>> THEN <<>> ELSE Head(M) \o Flatten(Tail(M))

\* ndarray.T of a 2-d array
Transpose(M) == [j \in 1..Len(M[1]) |-> [i \in 1..Len(M) |-> M[i][j]]]

MatSub(X, Y) == [i \in 1..Len(X) |-> [j \in 1..Len(X[i]) |-> X[i][j] - Y[i][j]]]

zeros_like(M) == [i \in 1..Len(M) |-> [j \in 1..Len(M[i]) |-> 0]]

\* np.sum(M ** 2)
SumSq(M) == SumSeq([n \in 1..Len(Flatten(M)) |-> Flatten(M)[n] * Flatten(M)[n]])

\* np.sum(np.abs(v))
SumAbs(v) == SumSeq([n \in 1..Len(v) |-> Abs(v[n])])

VecSub(u, v) == [n \in 1..Len(u) |-> u[n] - v[n]]

\* 2 x 2 matrices
MatMul(X, Y) == [i \in 1..2 |-> [j \in 1..2 |-> X[i][1] * Y[1][j] + X[i][2] * Y[2][j]]]
Diag2(a, b) == << <<a, 0>>, <<0, b>> >>
Det2(X) == X[1][1] * X[2][2] - X[1][2] * X[2][1]
Adj2(X) == << <<X[2][2], -X[1][2]>>, <<-X[2][1], X[1][1]>> >>
Trace2(X) == X[1][1] + X[2][2]

\* ------------------------------------------------------------ variables
VARIABLES
    self,               \* the optimizer's attributes (None: no object yet)
    pre,                \* the attributes as the last call handed them to the guard
    err,                \* the exception the last call raised, "none" if none
    coef_,              \* self.coef_, shape (n_targets, n_features)
    initial_guess,      \* self.coef_ as _reduce found it
    pc,                 \* position in _reduce
    k,                  \* the loop variable of _reduce
    coef_sparse, coef_prev, trap_ctr, trap_prev_ctr, A,
    A_history_, m_history_, p_history_, PW_history_, PWeigs_history_, history_,
    objective_history,
    warnings,           \* warnings emitted, in order
    exit,               \* how the loop of _reduce was left
    calls,              \* number of calls of each sub-solver in this run
    lib,                \* the library the builders are run for: n_tgts, include_bias,
                        \* missing (a term removed from the index, or None)
    w,                  \* a coefficient matrix, shape (n_features, n_targets)
    built               \* results of the builders (None before they ran); for
                        \* repeated fits the constraint attributes of the optimizer

cfgVars == <<self, pre, err>>
runVars == <<coef_, initial_guess, pc, k, coef_sparse, coef_prev, trap_ctr, trap_prev_ctr, A,
             A_history_, m_history_, p_history_, PW_history_, PWeigs_history_,
             history_, objective_history, warnings, exit, calls>>
consVars == <<lib, w, built>>
vars == <<cfgVars, runVars, consVars>>

\* =========================================================================
\* Construction and set_params
\* =========================================================================

\* defaults written by __post_init_guard (1e20, 1e18, 1e20) and the
\* defaults of alpha and beta (1e20), scaled
EtaDefault == 10000
AlphaMDefault == 100
AlphaADefault == 10000
AlphaDefault == 10000
BetaDefault == 10000

\* number of targets the optimizer is built for (_n_tgts); the certificate
\* matrix A is n_tgts x n_tgts and the trap center has n_tgts entries
n_tgts == 2

\* str.lower() on the regularizer names used here
Lower(t) == CASE t = "L1" -> "l1" [] t = "L2" -> "l2" [] OTHER -> t

\* np.diag(gamma * np.ones(n))
DiagGamma(gamma, n) == [i \in 1..n |-> [j \in 1..n |-> IF i = j THEN gamma ELSE 0]]

\* np.random.seed(1); (np.random.rand(n) - np.ones(n)) * 2: one fixed vector
\* with entries in [-2, 0)
SeededM0(n) == [i \in 1..n |-> -1]

Raise(s, e, ws) == [self |-> s, err |-> e, warnings |-> ws]

\* the gamma check of __post_init_guard left out
GammaCheck_mut(s) == FALSE
\* if self.gamma >= 0: raise
GammaCheck(s) == s.gamma >= 0

\* TrappingSR3.__post_init_guard: the attributes after the guard, the
\* ValueError it raised ("none" if none) and the warnings it emitted.  The
\* guard writes defaults into self before it checks, so an error leaves the
\* defaults written so far in place.
post_init_guard(s) ==
    LET s1 == IF s.eta = None
              THEN [s EXCEPT !.eta = Some(EtaDefault),
                             !.alpha_m = Some(AlphaMDefault),
                             !.alpha_A = Some(AlphaADefault)]
              ELSE [s EXCEPT !.alpha_m = IF @ = None THEN Some(Val(s.eta) \div 100) ELSE @,
                             !.alpha_A = IF @ = None THEN s.eta ELSE @]
        w1 == IF s.eta = None THEN <<"eta was not set">> ELSE <<>>
        s2 == [s1 EXCEPT !.alpha = IF @ = None THEN Some(AlphaDefault) ELSE @,
                         !.beta = IF @ = None THEN Some(BetaDefault) ELSE @]
        w2 == w1 \o (IF s1.alpha = None THEN <<"alpha was not set">> ELSE <<>>)
                 \o (IF s1.beta = None THEN <<"beta was not set">> ELSE <<>>)
        s3 == [s2 EXCEPT !.A0 = IF @ = None THEN DiagGamma(s2.gamma, s2.n_tgts) ELSE @,
                         !.m0 = IF @ = None THEN SeededM0(s2.n_tgts) ELSE @]
    IN  IF Lower(s.thresholder) \notin {"l1", "l2", "weighted_l1", "weighted_l2"}
        THEN Raise(s, "Regularizer must be (weighted) L1 or L2", <<>>)
        ELSE IF Val(s1.eta) <= 0
        THEN Raise(s1, "eta must be positive", w1)
        ELSE IF Val(s2.alpha_m) < 0 \/ Val(s2.alpha_m) > Val(s2.eta)
        THEN Raise(s2, "0 <= alpha_m <= eta", w2)
        ELSE IF Val(s2.alpha_A) < 0 \/ Val(s2.alpha_A) > Val(s2.eta)
        THEN Raise(s2, "0 <= alpha_A <= eta", w2)
        ELSE IF GammaCheck(s2)
        THEN Raise(s2, "gamma must be negative", w2)
        ELSE IF s2.tol <= 0 \/ s2.tol_m <= 0 \/ s2.eps_solver <= 0
        THEN Raise(s2, "tol and tol_m must be positive", w2)
        ELSE IF s2.inequality_constraints /\ s2.threshold = 0
        THEN Raise(s2, "Inequality constraints requires threshold!=0", w2)
        ELSE Raise(s3, "none", w2)

\* TrappingSR3.__init__, from the method dispatch on: the attributes handed
\* to the guard, or the ValueError of an unknown method
init_attrs(args) ==
    IF args.method \in {"global", "local"}
    THEN [pre |-> args, err |-> "none"]
    ELSE [pre |-> None, err |-> "Can either use 'global' or 'local' method"]

\* parameter values a caller passes, by parameter
ValuesOf(key) ==
    CASE key = "method" -> {"global", "local", "nonlocal"}
      [] key = "thresholder" -> {"L1", "weighted_l2", "l0"}
      [] key = "threshold" -> {0, 1}
      [] key = "tol" -> {0, 2}
      [] key = "max_iter" -> {1}
      [] key = "inequality_constraints" -> BOOLEAN
      [] key = "eps_solver" -> {0, 1}
      [] key = "m0" -> {None}
      [] key = "A0" -> {None}
      [] key = "alpha_A" -> {None, Some(-1), Some(100)}
      [] key = "alpha_m" -> {None, Some(1), Some(200)}
      [] key = "eta" -> {None, Some(0), Some(100)}
      [] key = "alpha" -> {None}
      [] key = "beta" -> {None}
      [] key = "gamma" -> {-50, -25, 0}
      [] key = "tol_m" -> {0, 2}
      [] key = "n_tgts" -> {n_tgts}

\* the keyword arguments of one constructor call
ParamValues ==
    [ method : ValuesOf("method"),
      thresholder : ValuesOf("thresholder"),
      threshold : ValuesOf("threshold"),
      tol : ValuesOf("tol"),
      max_iter : ValuesOf("max_iter"),
      inequality_constraints : ValuesOf("inequality_constraints"),
      eps_solver : ValuesOf("eps_solver"),
      m0 : ValuesOf("m0"),
      A0 : ValuesOf("A0"),
      alpha_A : ValuesOf("alpha_A"),
      alpha_m : ValuesOf("alpha_m"),
      eta : ValuesOf("eta"),
      alpha : ValuesOf("alpha"),
      beta : ValuesOf("beta"),
      gamma : ValuesOf("gamma"),
      tol_m : ValuesOf("tol_m"),
      n_tgts : ValuesOf("n_tgts") ]

\* the parameters set_params is called with
ParamKeys == {"thresholder", "threshold", "tol", "inequality_constraints",
              "eps_solver", "alpha_A", "alpha_m", "eta", "gamma", "tol_m"}

\* the variables of _reduce and of the builders, while they do not run
RunIdle ==
    /\ coef_ = None /\ initial_guess = None /\ pc = "idle" /\ k = 0
    /\ coef_sparse = None /\ coef_prev = None
    /\ trap_ctr = None /\ trap_prev_ctr = None /\ A = None
    /\ A_history_ = <<>> /\ m_history_ = <<>> /\ p_history_ = <<>>
    /\ PW_history_ = <<>> /\ PWeigs_history_ = <<>> /\ history_ = <<>>
    /\ objective_history = <<>>
    /\ exit = "none"
    /\ calls = [coef |-> 0, cert |-> 0]

ConsIdle == lib = None /\ w = None /\ built = None

InitCfg ==
    /\ self = None /\ pre = None /\ err = "none" /\ warnings = <<>>
    /\ RunIdle /\ ConsIdle

\* TrappingSR3(**args): the first call on a behaviour
Construct ==
    /\ self = None /\ pre = None /\ err = "none"
    /\ \E args \in ParamValues :
          LET i == init_attrs(args)
              g == post_init_guard(i.pre)
          IN  IF i.err # "none"
              THEN /\ self' = None /\ pre' = None /\ err' = i.err
                   /\ warnings' = <<>>
              ELSE /\ pre' = i.pre
                   /\ err' = g.err
                   /\ warnings' = g.warnings
                   \* an exception in __init__ leaves no object behind
                   /\ self' = IF g.err = "none" THEN g.self ELSE None
    /\ UNCHANGED <<coef_, initial_guess, pc, k, coef_sparse, coef_prev, trap_ctr, trap_prev_ctr, A,
                   A_history_, m_history_, p_history_, PW_history_, PWeigs_history_,
                   history_, objective_history, exit, calls, consVars>>

\* TrappingSR3.set_params(key=v): the attribute is set, then the guard runs
\* on the object; an exception leaves the object as the guard left it
set_params ==
    /\ self # None /\ pc = "idle"
    /\ \E key \in ParamKeys : \E v \in ValuesOf(key) :
          LET given == [self EXCEPT ![key] = v]
              g == post_init_guard(given)
          IN  /\ pre' = given
              /\ self' = g.self
              /\ err' = g.err
              /\ warnings' = g.warnings
    /\ UNCHANGED <<coef_, initial_guess, pc, k, coef_sparse, coef_prev, trap_ctr, trap_prev_ctr, A,
                   A_history_, m_history_, p_history_, PW_history_, PWeigs_history_,
                   history_, objective_history, exit, calls, consVars>>

\* NextCfg and SpecCfg follow the driver, whose first step they include

\* ----------------------------------------------- properties under SpecCfg

\* a call handed its attributes to the guard
GuardRan == pre # None

\* the shrinkage kinds named (weighted) L1/L2, in either case
ShrinkageKinds == {"l1", "l2", "weighted_l1", "weighted_l2",
                   "L1", "L2", "weighted_L1", "weighted_L2"}

\* a step size the caller supplied lies outside [0, eta], eta being the
\* value in force: the caller's or, with none given, the default
StepOutside(step, eta) ==
    /\ step # None
    /\ \/ Val(step) < 0
       \/ Val(step) > (IF eta = None THEN EtaDefault ELSE Val(eta))

\* the configurations of the list, but for the step sizes
InvalidOther(p) ==
    \/ p.thresholder \notin ShrinkageKinds
    \/ (p.eta # None /\ Val(p.eta) <= 0)
    \/ p.gamma >= 0
    \/ p.tol <= 0 \/ p.tol_m <= 0 \/ p.eps_solver <= 0
    \/ (p.inequality_constraints /\ p.threshold = 0)

InvalidStep(p) == StepOutside(p.alpha_A, p.eta) \/ StepOutside(p.alpha_m, p.eta)

\* C9: the constructor and set_params raise a configuration error whenever
\* the shrinkage kind is not (weighted) L1/L2, eta <= 0, a step size the
\* caller supplied lies outside [0, eta], gamma >= 0, a tolerance or
\* eps_solver is <= 0, or inequality constraints come with threshold 0.
C9_InvalidAlwaysRaises ==
    GuardRan => ((InvalidOther(pre) \/ InvalidStep(pre)) => err # "none")

\* C9 as the guard keeps it: the step sizes are checked only when the caller
\* set eta; with eta unset the guard replaces them by its defaults
C9_InvalidRaisesStepWithEta ==
    GuardRan =>
        ((InvalidOther(pre) \/ (pre.eta # None /\ InvalidStep(pre))) => err # "none")

\* C11: when the caller supplies no A0 (no call of this specification
\* does), the certificate matrix A at the start of a fit is diag(gamma) for
\* the gamma configured at that time, after any sequence of construction
\* and set_params calls.
C11_FitStartsFromDiagGamma ==
    (pc = "loop" /\ k = 0) =>
        /\ A = [i \in 1..self.n_tgts |-> [j \in 1..self.n_tgts |->
                    IF i = j THEN self.gamma ELSE 0]]
        /\ A_history_ = <<A>>

\* set_params on an object turned gamma non-negative and was refused
C9_Witness ==
    /\ self # None /\ GuardRan
    /\ pre.gamma >= 0
    /\ err = "gamma must be negative"


\* =========================================================================
\* The certificate update: eigenvalue clip
\* =========================================================================

\* eigenvalues the symmetric matrices of the model have
EigDomain == {25 * n : n \in -3..3}

\* orthonormal eigenvector bases, columns scaled by 5: the identity, the
\* rotation with cosine 3/5 and sine 4/5, and each with its columns swapped
Bases == { << <<5, 0>>, <<0, 5>> >>, << <<0, 5>>, <<5, 0>> >>,
           << <<3, -4>>, <<4, 3>> >>, << <<-4, 3>>, <<3, 4>> >> }

\* np.linalg.eigh(M)[0]: the eigenvalues of a symmetric matrix, ascending
eigvalsh(M) ==
    CHOOSE l \in EigDomain \X EigDomain :
        /\ l[1] <= l[2]
        /\ l[1] + l[2] = Trace2(M)
        /\ l[1] * l[2] = Det2(M)

\* np.linalg.eigh(M)[1]: a matrix whose columns are orthonormal eigenvectors
\* of M in the order of the ascending eigenvalues.  For a repeated
\* eigenvalue every orthonormal basis qualifies.
eigvecsh(M) ==
    {V \in Bases : MatMul(M, V) = MatMul(V, Diag2(eigvalsh(M)[1], eigvalsh(M)[2]))}

\* the clip with the comparison turned around
clip_mut(eigval, gamma) == IF eigval < gamma THEN gamma ELSE eigval
\* if eigvals[i] > self.gamma: A[i, i] = self.gamma
clip(eigval, gamma) == IF eigval > gamma THEN gamma ELSE eigval

\* V @ D @ np.linalg.inv(V), the inverse taken as adjugate / determinant
Conjugate(V, D) ==
    LET num == MatMul(MatMul(V, D), Adj2(V))
    IN  [i \in 1..2 |-> [j \in 1..2 |-> num[i][j] \div Det2(V)]]

\* TrappingSR3._update_A: the matrices it can return
update_A(A_old, PW, gamma) ==
    LET eigvals == eigvalsh(A_old)
        D == Diag2(clip(eigvals[1], gamma), clip(eigvals[2], gamma))
    IN  {Conjugate(eigvecsPW, D) : eigvecsPW \in eigvecsh(PW)}

\* =========================================================================
\* The driver _reduce
\* =========================================================================

\* n_poly_features(n_tgts, 2, include_bias=False) for n_tgts = 2
n_features == 5

\* a coefficient matrix of shape (n_features, n_tgts) with two entries set
CoefMat(a, b) ==
    [t \in 1..n_features |-> [i \in 1..n_tgts |->
        IF t = 1 /\ i = 1 THEN a ELSE IF t = 2 /\ i = 2 THEN b ELSE 0]]

\* coefficient matrices the coefficient update returns and fits start from
CoefSet == {CoefMat(0, 0), CoefMat(1, 1), CoefMat(2, 0)}

\* trap centers the certificate update returns
MSet == {<<-1, 0>>, <<1, 1>>}

\* projected energy matrices P.w of nonzero coefficients: a diagonal one
\* and one in the rotated basis with eigenvalues -50 and 25, and one in the
\* rotated basis with eigenvalues 0 and 25
PWSet == {Diag2(-50, 25), << <<-2, -36>>, <<-36, -23>> >>,
          << <<16, -12>>, <<-12, 9>> >>}

\* a certificate matrix a caller passes as A0, one eigenvalue above gamma
UserA0 == Diag2(25, -50)

\* the outcome of the certificate update that the driver tests for with
\* "trap_ctr is None".  _solve_m_relax_and_split as written has no return of
\* None; the handler of _reduce is modelled for a certificate update that
\* hands it this outcome.
Infeasible == [trap |-> None, A |-> None, PW |-> None]

\* _update_coef_cvxpy of the base class, which _update_coef_sparse_rs ends
\* in: the solution of the convex program, or None when the program is
\* infeasible
update_coef_cvxpy == CoefSet \cup {None}

\* the warning _update_coef_cvxpy emits before it returns None
warn_infeasible(ws) == Append(ws, "Infeasible solve")

\* the coefficient update of _reduce: _update_coef_sparse_rs (the convex
\* program) when a threshold or inequality constraints are set,
\* _update_coef_nonsparse_rs (closed form) otherwise
update_coef(s) ==
    IF s.threshold > 0 \/ s.inequality_constraints
    THEN update_coef_cvxpy
    ELSE CoefSet

\* np.tensordot(P_A, coef_sparse): zero for zero coefficients
PWof(coef) == IF coef = zeros_like(coef) THEN {Diag2(0, 0)} ELSE PWSet

\* A - alpha_A * A_b with A_b = (A - PW) / eta
GradStepA(A_, PW, alpha_A, eta) ==
    [i \in 1..2 |-> [j \in 1..2 |->
        (eta * A_[i][j] - alpha_A * (A_[i][j] - PW[i][j])) \div eta]]

\* trap_ctr - alpha_m * PMT_PW
GradStepM(trap, alpha_m) == IF alpha_m = 0 THEN {trap} ELSE MSet

\* TrappingSR3._solve_m_relax_and_split: the (trap_new, A_new) it can
\* return, with the PW it computed, and the infeasibility signal the driver
\* tests for
solve_m_relax_and_split(s, trap, A_, coef) ==
    UNION { { [trap |-> t, A |-> a, PW |-> PW] :
                t \in GradStepM(trap, Val(s.alpha_m)),
                a \in update_A(GradStepA(A_, PW, Val(s.alpha_A), Val(s.eta)), PW, s.gamma) }
            : PW \in PWof(coef) }

\* a first iterate compared with itself
convergence_criterion_mut(history) ==
    LET this_coef == history[Len(history)]
        last_coef == IF Len(history) > 1 THEN history[Len(history) - 1]
                     ELSE this_coef
    IN  SumSq(MatSub(this_coef, last_coef))

\* TrappingSR3._convergence_criterion, squared: np.sum((this - last) ** 2)
convergence_criterion(history) ==
    LET this_coef == history[Len(history)]
        last_coef == IF Len(history) > 1 THEN history[Len(history) - 1]
                     ELSE zeros_like(this_coef)
    IN  SumSq(MatSub(this_coef, last_coef))

\* TrappingSR3._m_convergence_criterion
m_convergence_criterion(m_history) ==
    SumAbs(VecSub(m_history[Len(m_history) - 1], m_history[Len(m_history)]))

\* the test with "or" for "and"
converged_mut(s, m_history, history) ==
    \/ m_convergence_criterion(m_history) < s.tol_m
    \/ convergence_criterion(history) < s.tol * s.tol
\* the convergence test of _reduce; err_coef < tol is err_coef^2 < tol^2
converged(s, m_history, history) ==
    /\ m_convergence_criterion(m_history) < s.tol_m
    /\ convergence_criterion(history) < s.tol * s.tol

\* TrappingSR3._objective: the number of times each loss enters the sum
objective(s) ==
    [ sindy_loss |-> 1, relax_loss |-> 1, L1 |-> 1,
      nonlin_ens_loss |-> IF s.method = "local" THEN 2 ELSE 0,
      cubic_ens_loss |-> 0 ]


\* the keyword arguments of the optimizers that are fitted
FitArgs ==
    { [ method |-> mt[1], thresholder |-> "L1", threshold |-> mt[2], tol |-> 2,
        max_iter |-> mi, inequality_constraints |-> FALSE, eps_solver |-> 1,
        m0 |-> None, A0 |-> aa[1], alpha_A |-> aa[2], alpha_m |-> None,
        eta |-> Some(100), alpha |-> None, beta |-> None, gamma |-> -25,
        tol_m |-> 2, n_tgts |-> n_tgts ] :
        mt \in {"global", "local"} \X {0, 1},
        mi \in 1..MaxIter,
        aa \in {None, UserA0} \X {None, Some(0)} }

Init ==
    /\ self \in {post_init_guard(init_attrs(a).pre).self : a \in FitArgs}
    /\ pre = None /\ err = "none" /\ warnings = <<>>
    /\ coef_ \in {Transpose(c) : c \in CoefSet}
    /\ initial_guess = coef_
    /\ pc = "start" /\ k = 0
    /\ coef_sparse = None /\ coef_prev = None
    /\ trap_ctr = None /\ trap_prev_ctr = None /\ A = None
    /\ A_history_ = <<>> /\ m_history_ = <<>> /\ p_history_ = <<>>
    /\ PW_history_ = <<>> /\ PWeigs_history_ = <<>> /\ history_ = <<>>
    /\ objective_history = <<>>
    /\ exit = "none"
    /\ calls = [coef |-> 0, cert |-> 0]
    /\ ConsIdle

\* the entry put in front: list.insert(0, x)
append_mut(h, x) == <<x>> \o h
\* list.append
append(h, x) == Append(h, x)

\* pysindy.utils.reorder_constraints(arr, n_features, output_order="feature")
\* on flattened rows: the row is read as (n_tgt, n_features), target-major,
\* and written feature-major, entry (f, t) at f * n_tgt + t
reorder_constraints(arr, n_feat) ==
    [c \in DOMAIN arr |->
        LET n_tgt == Cardinality(DOMAIN arr[c]) \div n_feat
        IN  [q \in DOMAIN arr[c] |-> arr[c][(q % n_tgt) * n_feat + (q \div n_tgt)]]]

\* the constraint attributes of the optimizer as _reduce leaves them: a
\* matrix of order "target" is reordered, the order attribute stays as it is
\* (b is None where the constraint matrix is not followed)
reduce_constraints(b) ==
    IF b = None THEN None
    ELSE IF b.use_constraints /\ b.constraint_order = "target"
    THEN [b EXCEPT !.constraint_lhs = reorder_constraints(@, b.n_features),
                   !.n_reduce = @ + 1]
    ELSE [b EXCEPT !.n_reduce = @ + 1]

\* _reduce up to the loop: the constraint matrix is reordered, the histories
\* are emptied, A and the trap center start from A0 and m0 and are recorded
reduce_start ==
    /\ pc = "start"
    /\ built' = reduce_constraints(built)
    /\ A_history_' = append(<<>>, self.A0)
    /\ m_history_' = append(<<>>, self.m0)
    /\ p_history_' = <<>>
    /\ PW_history_' = <<>>
    /\ PWeigs_history_' = <<>>
    /\ history_' = <<>>
    /\ coef_sparse' = Transpose(coef_)
    /\ A' = self.A0
    /\ trap_ctr' = self.m0
    /\ trap_prev_ctr' = self.m0
    /\ objective_history' = <<>>
    /\ k' = 0
    /\ pc' = "loop"
    /\ UNCHANGED <<cfgVars, coef_, initial_guess, coef_prev, warnings, exit, calls,
                   lib, w>>

\* the revert left out
revert_coef_mut(coef_new, prev) == coef_new
\* coef_sparse = coef_prev
revert_coef(coef_new, prev) == prev

\* one iteration up to the coefficient update, which succeeds
coef_update ==
    /\ pc = "loop" /\ k < self.max_iter
    /\ p_history_' = append(p_history_, [P_A_at |-> trap_ctr])
    /\ coef_prev' = coef_sparse
    /\ calls' = [calls EXCEPT !.coef = @ + 1]
    /\ \E c \in update_coef(self) \ {None} :
          /\ coef_sparse' = c
          /\ pc' = "cert"
    /\ UNCHANGED <<cfgVars, coef_, initial_guess, k, trap_ctr, trap_prev_ctr, A,
                   A_history_, m_history_, PW_history_, PWeigs_history_, history_,
                   objective_history, warnings, exit, consVars>>

\* one iteration up to the coefficient update, which returns None: the
\* convex program warns, the driver reverts and leaves the loop
coef_infeasible ==
    /\ pc = "loop" /\ k < self.max_iter
    /\ None \in update_coef(self)
    /\ p_history_' = append(p_history_, [P_A_at |-> trap_ctr])
    /\ coef_prev' = coef_sparse
    /\ calls' = [calls EXCEPT !.coef = @ + 1]
    /\ warnings' = warn_infeasible(warnings)
    /\ coef_sparse' = revert_coef(None, coef_prev')
    /\ exit' = "coef_infeasible"
    /\ pc' = "finish"
    /\ UNCHANGED <<cfgVars, coef_, initial_guess, k, trap_ctr, trap_prev_ctr, A,
                   A_history_, m_history_, PW_history_, PWeigs_history_, history_,
                   objective_history, consVars>>

\* the else clause run although the loop was left by break
on_break_mut(ws) == Append(ws, "TrappingSR3 did not converge")
\* break: the else clause of the for loop is skipped, nothing is emitted
on_break(ws) == ws

\* the rest of an iteration whose certificate update succeeds: the results
\* are recorded, the objective is recorded, the convergence test decides
cert_update ==
    /\ pc = "cert"
    /\ calls' = [calls EXCEPT !.cert = @ + 1]
    /\ \E r \in solve_m_relax_and_split(self, trap_ctr, A, coef_sparse) :
          /\ trap_ctr' = r.trap
          /\ A' = r.A
          /\ history_' = append(history_, Transpose(coef_sparse))
          /\ m_history_' = append(m_history_, r.trap)
          /\ A_history_' = append(A_history_, r.A)
          /\ PW_history_' = append(PW_history_, r.PW)
          /\ PWeigs_history_' = append(PWeigs_history_, eigvalsh(r.PW))
    /\ objective_history' = append(objective_history, objective(self))
    /\ IF converged(self, m_history_', history_')
       THEN /\ exit' = "converged" /\ pc' = "finish" /\ k' = k
            /\ warnings' = on_break(warnings)
       ELSE /\ exit' = exit /\ pc' = "loop" /\ k' = k + 1
            /\ warnings' = warnings
    /\ UNCHANGED <<cfgVars, coef_, initial_guess, coef_sparse, coef_prev,
                   trap_prev_ctr, p_history_, consVars>>

\* the certificate update signals infeasibility: trap_ctr is None, the
\* driver restores it from trap_prev_ctr and leaves the loop
cert_infeasible ==
    /\ pc = "cert"
    /\ calls' = [calls EXCEPT !.cert = @ + 1]
    /\ trap_ctr' = trap_prev_ctr
    /\ A' = Infeasible.A
    /\ exit' = "cert_infeasible"
    /\ pc' = "finish"
    /\ UNCHANGED <<cfgVars, coef_, initial_guess, k, coef_sparse, coef_prev,
                   trap_prev_ctr, A_history_, m_history_, p_history_, PW_history_,
                   PWeigs_history_, history_, objective_history, warnings, consVars>>

\* the warning left out
warn_not_converged_mut(ws) == ws
\* warnings.warn("TrappingSR3 did not converge ...", ConvergenceWarning)
warn_not_converged(ws) == Append(ws, "TrappingSR3 did not converge")

\* the else of the for loop: the range is exhausted without a break
loop_else ==
    /\ pc = "loop" /\ k >= self.max_iter
    /\ warnings' = warn_not_converged(warnings)
    /\ exit' = "max_iter"
    /\ pc' = "finish"
    /\ UNCHANGED <<cfgVars, coef_, initial_guess, k, coef_sparse, coef_prev, trap_ctr,
                   trap_prev_ctr, A, A_history_, m_history_, p_history_, PW_history_,
                   PWeigs_history_, history_, objective_history, calls, consVars>>

\* self.coef_ = coef_sparse.T
finish ==
    /\ pc = "finish"
    /\ coef_' = Transpose(coef_sparse)
    /\ pc' = "done"
    /\ UNCHANGED <<cfgVars, initial_guess, k, coef_sparse, coef_prev, trap_ctr,
                   trap_prev_ctr, A, A_history_, m_history_, p_history_, PW_history_,
                   PWeigs_history_, history_, objective_history, warnings, exit, calls,
                   consVars>>

Next ==
    \/ reduce_start
    \/ coef_update
    \/ coef_infeasible
    \/ cert_update
    \/ cert_infeasible
    \/ loop_else
    \/ finish

Spec == Init /\ [][Next]_vars

\* a fit of the configured optimizer gets to _reduce, with the initial guess
\* in self.coef_
fit ==
    /\ self # None /\ err = "none" /\ pc = "idle"
    /\ coef_' = Transpose(CoefMat(0, 0))
    /\ initial_guess' = coef_'
    /\ pc' = "start"
    /\ UNCHANGED <<cfgVars, k, coef_sparse, coef_prev, trap_ctr, trap_prev_ctr, A,
                   A_history_, m_history_, p_history_, PW_history_, PWeigs_history_,
                   history_, objective_history, warnings, exit, calls, consVars>>

\* construction, set_params, and the start of a fit of the configured
\* optimizer
NextCfg == Construct \/ set_params \/ fit \/ reduce_start

SpecCfg == InitCfg /\ [][NextCfg]_vars


\* =========================================================================
\* Properties of the driver (specification Spec)
\* =========================================================================

Last(h) == h[Len(h)]

IsPrefix(g, h) == Len(g) <= Len(h) /\ \A i \in 1..Len(g) : g[i] = h[i]

\* an iteration has just been completed: the loop is back at its head, or
\* it was left by the convergence break
IterationEnd == history_ # <<>> /\ (pc = "loop" \/ exit = "converged")

\* number of completed iterations
Completed == IF exit = "converged" THEN k + 1 ELSE k

\* the coefficients held before the current iteration
BeforeIteration == IF history_ = <<>> THEN initial_guess ELSE Last(history_)

\* the run was left because a sub-solver signalled infeasibility
InfeasibleExit == exit \in {"coef_infeasible", "cert_infeasible"}

\* L1 change of the trap center between the last two accepted iterates
MChange == SumAbs(VecSub(m_history_[Len(m_history_) - 1], Last(m_history_)))

\* squared L2 change of the coefficients between the last two accepted
\* iterates, the initial guess being the iterate before the first
CoefChangeSq ==
    SumSq(MatSub(Last(history_),
                 IF Len(history_) > 1 THEN history_[Len(history_) - 1]
                 ELSE initial_guess))

\* the same with an all-zero matrix before the first recorded iterate
CoefChangeRecordedSq ==
    SumSq(MatSub(Last(history_),
                 IF Len(history_) > 1 THEN history_[Len(history_) - 1]
                 ELSE zeros_like(Last(history_))))

\* C1 as stated: at the end of a completed iteration the run is CONVERGED
\* if and only if the L2 change of the coefficients between the last two
\* accepted iterates is below tol and the L1 change of m is below tol_m.
C1_ConvergedIffBothChanges ==
    IterationEnd =>
        (exit = "converged" <=>
            (CoefChangeSq < self.tol * self.tol /\ MChange < self.tol_m))

\* C1 amended: at the end of a completed iteration the run is CONVERGED if
\* and only if both hold: the L2 change between the last two recorded
\* coefficient iterates (the new coefficients against an all-zero matrix in
\* the first iteration) is below tol, and the L1 change of m between the
\* last two accepted iterates is below tol_m.
C1_ConvergedIffBothCriteria ==
    IterationEnd =>
        (exit = "converged" <=>
            (CoefChangeRecordedSq < self.tol * self.tol /\ MChange < self.tol_m))

\* converged in the second iteration
C1_Witness == exit = "converged" /\ Len(history_) = 2 /\ pc = "done"

\* C2: for every max_iter >= 1, a run that reaches the iteration bound
\* without the convergence test succeeding ends in MAX_ITER_EXCEEDED, has
\* emitted the non-convergence warning, raised nothing, and coef_ is the
\* coefficient matrix of the last iteration (not None).
C2_MaxIterExceeded ==
    /\ (pc \in {"finish", "done"} /\ Len(history_) = self.max_iter
            /\ exit # "converged") => exit = "max_iter"
    /\ exit = "max_iter" =>
          /\ self.max_iter >= 1
          /\ Len(history_) = self.max_iter
          /\ warnings = <<"TrappingSR3 did not converge">>
          /\ err = "none"
          /\ pc = "done" => (coef_ # None /\ coef_ = Last(history_))

\* the iteration bound 1 reached without convergence
C2_Witness == pc = "done" /\ exit = "max_iter" /\ self.max_iter = 1

\* C3: when the coefficient update returns None in an iteration, the loop
\* is left at once, the certificate update is not called in that iteration,
\* and the coefficients returned in coef_ are those held before the
\* iteration: the previous iterate, or the initial guess in the first.
C3_CoefInfeasibleKeepsPrevious ==
    exit = "coef_infeasible" =>
        /\ pc \in {"finish", "done"}
        /\ calls.coef = Len(history_) + 1
        /\ calls.cert = Len(history_)
        /\ coef_sparse = Transpose(BeforeIteration)
        /\ pc = "done" => coef_ = BeforeIteration

\* the coefficient update failed in the second iteration
C3_Witness == pc = "done" /\ exit = "coef_infeasible" /\ Len(history_) = 1

\* C4 as stated, for the trap center: when the certificate update signals
\* infeasibility, m is the value it had immediately before that update (the
\* m of the previous iteration).  The certificate matrix is not restored
\* either: A is whatever the failed update returned.
C4_TrapCenterReverted ==
    exit = "cert_infeasible" => trap_ctr = Last(m_history_)

\* C5 as stated: when a sub-solver signals infeasibility the run ends early,
\* is back at the last good state, has emitted a warning, and still returns
\* a coefficient matrix.
C5_InfeasibleWarnsAndReverts ==
    InfeasibleExit =>
        /\ pc \in {"finish", "done"}
        /\ warnings # <<>>
        /\ trap_ctr = Last(m_history_)
        /\ coef_sparse = Transpose(BeforeIteration)
        /\ pc = "done" => coef_ # None

\* C6 as stated: each of the five history buffers holds exactly one entry
\* per completed iteration.
C6_OneEntryPerIteration ==
    pc \notin {"idle", "start"} =>
        /\ Len(A_history_) = Completed
        /\ Len(m_history_) = Completed
        /\ Len(history_) = Completed
        /\ Len(PW_history_) = Completed
        /\ Len(PWeigs_history_) = Completed

C6_Lengths ==
    pc \notin {"idle", "start"} =>
        /\ Len(A_history_) = Completed + 1
        /\ Len(m_history_) = Completed + 1
        /\ A_history_[1] = self.A0
        /\ m_history_[1] = self.m0
        /\ Len(history_) = Completed
        /\ Len(PW_history_) = Completed
        /\ Len(PWeigs_history_) = Completed

C6_AppendOnly ==
    pc # "start" =>
        /\ IsPrefix(A_history_, A_history_')
        /\ IsPrefix(m_history_, m_history_')
        /\ IsPrefix(history_, history_')
        /\ IsPrefix(PW_history_, PW_history_')
        /\ IsPrefix(PWeigs_history_, PWeigs_history_')
        /\ (history_' # history_ =>
               /\ Last(history_') = Transpose(coef_sparse')
               /\ Last(m_history_') = trap_ctr'
               /\ Last(A_history_') = A')

\* C6 amended: after k completed iterations the coefficient history_,
\* PW_history_ and PWeigs_history_ hold exactly k entries, and A_history_
\* and m_history_ hold k + 1: the initial A0 and m0 followed by one entry
\* per completed iteration.  All are in iteration order, and during the
\* run entries are only appended, never changed or removed.
C6_Histories == [](C6_Lengths) /\ [][C6_AppendOnly]_vars

\* two iterations were completed and recorded
C6_Witness == pc = "done" /\ Completed = 2 /\ Len(history_) = 2

\* all eigenvalues of the symmetric 2 x 2 matrix M are <= g: M - g I is
\* negative semidefinite
EigsAtMost(M, g) ==
    /\ M[1][2] = M[2][1]
    /\ Trace2(M) - 2 * g <= 0
    /\ (M[1][1] - g) * (M[2][2] - g) - M[1][2] * M[2][1] >= 0

\* C10: the matrix _update_A returns has all eigenvalues <= gamma, for the
\* symmetric inputs and the gamma < 0 of the model; so after every
\* certificate update of _reduce the certificate matrix A has all
\* eigenvalues <= gamma.
C10_ClippedEigenvalues ==
    /\ \A i \in 2..Len(A_history_) : EigsAtMost(A_history_[i], self.gamma)
    /\ (pc \in {"loop", "finish", "done"} /\ calls.cert > 0 /\ exit # "cert_infeasible")
          => EigsAtMost(A, self.gamma)

\* a certificate update that started from an A0 with an eigenvalue above
\* gamma and returned a matrix in the rotated basis
C10_Witness ==
    /\ Len(A_history_) >= 2
    /\ ~EigsAtMost(A_history_[1], self.gamma)
    /\ self.gamma < 0
    /\ A = Last(A_history_)
    /\ A[1][2] # 0

\* the losses the objective is said to sum, each once: the two stability
\* penalties in local mode only
ObjectiveTerms(method) ==
    [ sindy_loss |-> 1, relax_loss |-> 1, L1 |-> 1,
      nonlin_ens_loss |-> IF method = "local" THEN 1 ELSE 0,
      cubic_ens_loss |-> IF method = "local" THEN 1 ELSE 0 ]

\* C12: for every completed iteration exactly one objective value is
\* recorded, and it is data-fit loss + relaxation loss + sparsity penalty,
\* in local mode plus the ||Q||^2/alpha penalty once and the cyclic-sum
\* penalty once.
C12_ObjectiveSum ==
    pc \notin {"idle", "start"} =>
        /\ Len(objective_history) = Completed
        /\ \A i \in 1..Len(objective_history) :
               objective_history[i] = ObjectiveTerms(self.method)

\* C18: after _reduce returns by any exit, a non-empty history_ ends with
\* the coefficients returned in coef_.
C18_ReturnsLastRecorded ==
    (pc = "done" /\ history_ # <<>>) => coef_ = Last(history_)

\* C19: a run that satisfies both convergence criteria never emits the
\* non-convergence warning, also when it converges in iteration max_iter.
C19_ConvergedNoWarning ==
    exit = "converged" =>
        \A i \in 1..Len(warnings) : warnings[i] # "TrappingSR3 did not converge"

\* converged in the last permitted iteration, after one that did not
C19_Witness ==
    /\ pc = "done" /\ exit = "converged"
    /\ Len(history_) = self.max_iter /\ self.max_iter = MaxIter

\* C20: in the first iteration the coefficient criterion compares the new
\* coefficients with an all-zero matrix, not with the initial guess, and
\* the trap-center criterion compares with m0; so a run stops as CONVERGED
\* after one iteration only if the L2 norm of the new coefficients is below
\* tol.
C20_FirstIterationAgainstZeros ==
    (IterationEnd /\ Len(history_) = 1) =>
        /\ exit = "converged" <=>
              /\ SumSq(history_[1]) < self.tol * self.tol
              /\ SumAbs(VecSub(self.m0, m_history_[2])) < self.tol_m
        /\ exit = "converged" => SumSq(history_[1]) < self.tol * self.tol

\* converged after one iteration although the new coefficients differ
\* from the initial guess by tol or more
C20_Witness ==
    /\ exit = "converged" /\ Len(history_) = 1
    /\ SumSq(MatSub(history_[1], initial_guess)) >= self.tol * self.tol


\* =========================================================================
\* The term index, the constraint builder and the quadratic projection
\* =========================================================================
\* Targets and terms are numbered from 0, as in the source.  A term list is
\* a function from the term index to the exponent vector; a coefficient
\* matrix w and a constraint row have shape (n_terms, n_tgts).

\* lexicographic order on tuples of one length
RECURSIVE LexLess(_, _)
LexLess(x, y) ==
    /\ x # <<>>
    /\ \/ Head(x) < Head(y)
       \/ Head(x) = Head(y) /\ LexLess(Tail(x), Tail(y))

\* the elements of a set of tuples in lexicographic order
SortedSeq(S) ==
    [n \in 1..Cardinality(S) |->
        CHOOSE x \in S : Cardinality({y \in S : LexLess(y, x)}) = n - 1]

\* itertools.combinations_with_replacement(range(r), 2)
PairsWithReplacement(r) ==
    SortedSeq({<<j, j2>> : j \in 0..(r - 1), j2 \in 0..(r - 1)} \ {p \in (0..(r - 1)) \X (0..(r - 1)) : p[1] > p[2]})

\* itertools.combinations(range(r), 3)
combo_nr3(r) ==
    SortedSeq({t \in (0..(r - 1)) \X (0..(r - 1)) \X (0..(r - 1)) :
                  t[1] < t[2] /\ t[2] < t[3]})

\* math.comb(n, 3)
comb3(n) == (n * (n - 1) * (n - 2)) \div 6

\* PolynomialLibrary(2, include_bias).fit(zeros((1, r))).powers_: the
\* constant term if asked for, the r linear terms, then the quadratic terms
\* in the order of combinations_with_replacement
powers_(r, include_bias) ==
    LET off == IF include_bias THEN 1 ELSE 0
        pairs == PairsWithReplacement(r)
    IN  [t \in 0..(off + r + Len(pairs) - 1) |->
            [i \in 0..(r - 1) |->
                IF t < off THEN 0
                ELSE IF t < off + r THEN (IF i = t - off THEN 1 ELSE 0)
                ELSE (IF i = pairs[t - off - r + 1][1] THEN 1 ELSE 0)
                     + (IF i = pairs[t - off - r + 1][2] THEN 1 ELSE 0)]]

SumExps(exps) == SumSeq([n \in 1..Cardinality(DOMAIN exps) |-> exps[n - 1]])
MaxExps(exps) == CHOOSE m \in {exps[i] : i \in DOMAIN exps} :
                     \A i \in DOMAIN exps : exps[i] <= m
\* np.argmax(exps): the first index of the maximum
ArgMax(exps) == CHOOSE i \in DOMAIN exps :
                    /\ exps[i] = MaxExps(exps)
                    /\ \A j \in DOMAIN exps : exps[j] = MaxExps(exps) => i <= j
\* frozenset(np.argwhere(exps == 1).flatten())
ArgWhereOne(exps) == {i \in DOMAIN exps : exps[i] = 1}

\* a dict built by a comprehension over the terms sel in order, key[t] the
\* key of term t: a later term with the same key replaces the earlier one
DictOf(sel, key) ==
    [kv \in {key[t] : t \in sel} |->
        CHOOSE t \in sel : /\ key[t] = kv
                           /\ \A t2 \in sel : key[t2] = kv => t2 <= t]

IsMixed(exps) == MaxExps(exps) = 1 /\ SumExps(exps) = 2
IsPure(exps) == MaxExps(exps) = 2
IsLinear(exps) == SumExps(exps) = 1

\* _build_lib_info
build_lib_info(polyterms) ==
    [ n_targets |-> Cardinality(DOMAIN polyterms[0]),
      n_features |-> Cardinality(DOMAIN polyterms),
      linear_terms |-> DictOf({t \in DOMAIN polyterms : IsLinear(polyterms[t])},
                 [t \in DOMAIN polyterms |-> ArgMax(polyterms[t])]),
      pure_terms |-> DictOf({t \in DOMAIN polyterms : IsPure(polyterms[t])},
                 [t \in DOMAIN polyterms |-> ArgMax(polyterms[t])]),
      mixed_terms |-> DictOf({t \in DOMAIN polyterms : IsMixed(polyterms[t])},
                 [t \in DOMAIN polyterms |-> ArgWhereOne(polyterms[t])]) ]

\* dict.items() in insertion order, for keys that each occur in one term
\* only: the order of the term indexes
ItemsOf(d) ==
    LET S == {<<d[key], key>> : key \in DOMAIN d}
    IN  [n \in 1..Cardinality(S) |->
            CHOOSE x \in S : Cardinality({y \in S : y[1] < x[1]}) = n - 1]

\* a (n_terms, n_tgts) array of zeros with 1.0 at the places of S
RowOf(n_terms, r, S) ==
    [t \in 0..(n_terms - 1) |-> [i \in 0..(r - 1) |-> IF <<t, i>> \in S THEN 1 ELSE 0]]

MinOf(S) == CHOOSE x \in S : \A y \in S : x <= y
MaxOf(S) == CHOOSE x \in S : \A y \in S : y <= x

\* the rows of the pure terms left at zero
pure_constraints_mut(r, n_terms, pure_terms) ==
    [c \in 1..r |-> RowOf(n_terms, r, {})]

\* _pure_constraints
pure_constraints(r, n_terms, pure_terms) ==
    LET items == ItemsOf(pure_terms)
    IN  [c \in 1..r |->
            IF c <= Len(items)
            THEN RowOf(n_terms, r, {<<items[c][1], items[c][2]>>})
            ELSE RowOf(n_terms, r, {})]

\* constraint_mat_2 never concatenated
antisymm_double_constraint_half(r, n_terms, pure_terms, mixed_terms) ==
    LET items == ItemsOf(mixed_terms)
    IN  [c \in 1..Len(items) |->
            RowOf(n_terms, r, {<<items[c][1], MinOf(items[c][2])>>,
                               <<pure_terms[MinOf(items[c][2])], MaxOf(items[c][2])>>})]

\* the pure terms of tgt_i and tgt_j exchanged
antisymm_double_constraint_swapped(r, n_terms, pure_terms, mixed_terms) ==
    LET items == ItemsOf(mixed_terms)
        mat_1 == [c \in 1..Len(items) |->
            RowOf(n_terms, r, {<<items[c][1], MinOf(items[c][2])>>,
                               <<pure_terms[MaxOf(items[c][2])], MaxOf(items[c][2])>>})]
        mat_2 == [c \in 1..Len(items) |->
            RowOf(n_terms, r, {<<items[c][1], MaxOf(items[c][2])>>,
                               <<pure_terms[MinOf(items[c][2])], MinOf(items[c][2])>>})]
    IN  mat_1 \o mat_2

\* _antisymm_double_constraint; (tgt_i, tgt_j) unpacks the frozenset in
\* ascending order
antisymm_double_constraint(r, n_terms, pure_terms, mixed_terms) ==
    LET items == ItemsOf(mixed_terms)
        tgt_i(c) == MinOf(items[c][2])
        tgt_j(c) == MaxOf(items[c][2])
        mix_term(c) == items[c][1]
        constraint_mat_1 == [c \in 1..Len(items) |->
            RowOf(n_terms, r, {<<mix_term(c), tgt_i(c)>>,
                               <<pure_terms[tgt_i(c)], tgt_j(c)>>})]
        constraint_mat_2 == [c \in 1..Len(items) |->
            RowOf(n_terms, r, {<<mix_term(c), tgt_j(c)>>,
                               <<pure_terms[tgt_j(c)], tgt_i(c)>>})]
    IN  constraint_mat_1 \o constraint_mat_2

\* _antisymm_triple_constraints
antisymm_triple_constraints(r, n_terms, mixed_terms) ==
    LET find_symm_term(a, b) == mixed_terms[{a, b}]
        combos == combo_nr3(r)
    IN  [c \in 1..comb3(r) |->
            IF c <= Len(combos)
            THEN RowOf(n_terms, r,
                       {<<find_symm_term(combos[c][2], combos[c][3]), combos[c][1]>>,
                        <<find_symm_term(combos[c][3], combos[c][1]), combos[c][2]>>,
                        <<find_symm_term(combos[c][1], combos[c][2]), combos[c][3]>>})
            ELSE RowOf(n_terms, r, {})]

\* the lookups pure_terms[tgt_i] and pure_terms[tgt_j] of
\* _antisymm_double_constraint: a KeyError for a target without a pure term
double_raises(pure_terms, mixed_terms) ==
    \E key \in DOMAIN mixed_terms : \E tgt \in key : tgt \notin DOMAIN pure_terms

\* find_symm_term of _antisymm_triple_constraints: a KeyError for a pair of
\* a triple without a mixed term
triple_raises(r, mixed_terms) ==
    \E c \in 1..Len(combo_nr3(r)) :
        \E pair \in {{combo_nr3(r)[c][2], combo_nr3(r)[c][3]},
                     {combo_nr3(r)[c][3], combo_nr3(r)[c][1]},
                     {combo_nr3(r)[c][1], combo_nr3(r)[c][2]}} :
            pair \notin DOMAIN mixed_terms

\* the term list without its term t, the later terms moved up
WithoutTerm(terms, t) ==
    [u \in 0..(Cardinality(DOMAIN terms) - 2) |-> IF u < t THEN terms[u] ELSE terms[u + 1]]

\* _make_constraints from the term list on: "KeyError" if a builder raises,
\* else (the zeros of the right hand side, the constraint matrix of shape
\* (n_constraint, n_feature, n_tgt))
constraints_of(r, terms) ==
    LET info == build_lib_info(terms)
        pure_terms == DictOf({t \in DOMAIN terms : IsPure(terms[t])},
                 [t \in DOMAIN terms |-> ArgMax(terms[t])])
        mixed_terms == DictOf({t \in DOMAIN terms : IsMixed(terms[t])},
                 [t \in DOMAIN terms |-> ArgWhereOne(terms[t])])
        constraint_mat ==
            pure_constraints(r, info.n_features, pure_terms)
            \o antisymm_double_constraint(r, info.n_features, pure_terms, mixed_terms)
            \o antisymm_triple_constraints(r, info.n_features, mixed_terms)
    IN  IF double_raises(pure_terms, mixed_terms) \/ triple_raises(r, mixed_terms)
        THEN [ raised |-> "KeyError" ]
        ELSE [ raised |-> "none",
               rhs |-> [c \in 1..Len(constraint_mat) |-> 0], lhs |-> constraint_mat ]

\* _make_constraints(n_tgts, include_bias=...)
make_constraints(r, include_bias) == constraints_of(r, powers_(r, include_bias))

\* the mixed weight written for j < k only
build_PQ_mut(polyterms) ==
    LET info == build_lib_info(polyterms)
        T == 0..(info.n_targets - 1)
    IN  [a \in T |-> [j \in T |-> [k2 \in T |-> [d \in T |->
            [e \in 0..(info.n_features - 1) |->
                IF a # d THEN 0
                ELSE IF j = k2 /\ e = info.pure_terms[j] THEN 2
                ELSE IF j < k2 /\ e = info.mixed_terms[{j, k2}] THEN 1
                ELSE 0]]]]]

\* TrappingSR3._build_PQ, entry [a, j, k, d, e] in halves: 2 for the weight
\* 1.0 and 1 for the weight 1/2
build_PQ(polyterms) ==
    LET info == build_lib_info(polyterms)
        T == 0..(info.n_targets - 1)
    IN  [a \in T |-> [j \in T |-> [k2 \in T |-> [d \in T |->
            [e \in 0..(info.n_features - 1) |->
                IF a # d THEN 0
                ELSE IF j = k2 /\ e = info.pure_terms[j] THEN 2
                ELSE IF j # k2 /\ e = info.mixed_terms[{j, k2}] THEN 1
                ELSE 0]]]]]

\* PQ_tensor.transpose([1, 0, 2, 3, 4])
PT_tensor(PQ) ==
    [a \in DOMAIN PQ |-> [j \in DOMAIN PQ |-> [k2 \in DOMAIN PQ |-> PQ[j][a][k2]]]]

\* PM without the transposed part
PM_tensor_mut(PQ, PT) == PQ
\* PQ_tensor + PT_tensor
PM_tensor(PQ, PT) ==
    [a \in DOMAIN PQ |-> [j \in DOMAIN PQ |-> [k2 \in DOMAIN PQ |->
        [d \in DOMAIN PQ |-> [e \in DOMAIN PQ[a][j][k2][d] |->
            PQ[a][j][k2][d][e] + PT[a][j][k2][d][e]]]]]]

\* f[lo] + ... + f[hi]
RECURSIVE SumRange(_, _, _)
SumRange(f, lo, hi) == IF lo > hi THEN 0 ELSE f[lo] + SumRange(f, lo + 1, hi)

\* u[0] * v[0] + ... + u[n] * v[n]
RECURSIVE Dot(_, _, _)
Dot(u, v, n) == IF n < 0 THEN 0 ELSE u[n] * v[n] + Dot(u, v, n - 1)

\* np.einsum("abcde,ed", PQ, w), the mod_matrix being the identity: the
\* quadratic tensor Q_ijk of w, in halves
Qijk(PQ, w_) ==
    LET r == Cardinality(DOMAIN PQ)
        n_terms == Cardinality(DOMAIN w_)
        wT == [d \in 0..(r - 1) |-> [e \in 0..(n_terms - 1) |-> w_[e][d]]]
    IN  [a \in 0..(r - 1) |-> [j \in 0..(r - 1) |-> [k2 \in 0..(r - 1) |->
            SumRange([d \in 0..(r - 1) |-> Dot(PQ[a][j][k2][d], wT[d], n_terms - 1)],
                     0, r - 1)]]]

\* a constraint row applied to w: np.sum(row * w)
RowDot(row, w_) ==
    LET r == Cardinality(DOMAIN w_[0])
        n_terms == Cardinality(DOMAIN w_)
    IN  SumRange([t \in 0..(n_terms - 1) |-> Dot(row[t], w_[t], r - 1)], 0, n_terms - 1)

\* the zero matrix of shape (n_terms, r) with the entries at the places pos
\* (row-major indexes, ascending) set to the values val
WMatrix(n_terms, r, pos, val) ==
    [t \in 0..(n_terms - 1) |-> [i \in 0..(r - 1) |->
        IF \E n \in DOMAIN pos : pos[n] = t * r + i
        THEN val[CHOOSE n \in DOMAIN pos : pos[n] = t * r + i]
        ELSE 0]]

\* the ascending tuples of n numbers out of 0..(m - 1)
RECURSIVE Ascending(_, _)
Ascending(n, m) ==
    IF n = 0 THEN {<<>>}
    ELSE UNION { {Append(s, x) : x \in (IF s = <<>> THEN 0 ELSE s[Len(s)] + 1)..(m - 1)}
                 : s \in Ascending(n - 1, m) }

\* the number of nonzero entries of the coefficient matrices tried for a
\* library: up to MaxNonzero for up to 3 targets (one fewer with the constant
\* term, which no constraint row and no entry of PQ touches), none for more
MostNonzero(r, include_bias) ==
    IF r > 3 THEN 0 ELSE IF include_bias THEN MaxNonzero - 1 ELSE MaxNonzero

InitCons ==
    /\ self = None /\ pre = None /\ err = "none" /\ warnings = <<>>
    /\ RunIdle
    /\ lib \in { [n_tgts |-> r, include_bias |-> b, missing |-> m] :
                    r \in 2..MaxR, b \in BOOLEAN,
                    m \in {None} \cup {Some(t) : t \in 0..Cardinality(DOMAIN powers_(MaxR, TRUE))} }
    /\ lib.missing # None =>
          /\ lib.missing[1] \in DOMAIN powers_(lib.n_tgts, lib.include_bias)
          /\ IsMixed(powers_(lib.n_tgts, lib.include_bias)[lib.missing[1]])
    /\ w = None
    /\ built = None

\* _make_constraints(n_tgts, include_bias=...)
MakeConstraints ==
    /\ built = None /\ lib.missing = None
    /\ built' = [ constraints |-> make_constraints(lib.n_tgts, lib.include_bias),
                  PQ |-> None, PT |-> None, PM |-> None, Cw |-> None, Q |-> None ]
    /\ UNCHANGED <<cfgVars, runVars, lib, w>>

\* the builders of _make_constraints handed the term index of a library
\* that lacks one mixed term
MakeConstraintsIncomplete ==
    /\ built = None /\ lib.missing # None
    /\ built' = [ constraints |->
                      constraints_of(lib.n_tgts,
                          WithoutTerm(powers_(lib.n_tgts, lib.include_bias), lib.missing[1])),
                  PQ |-> None, PT |-> None, PM |-> None, Cw |-> None, Q |-> None ]
    /\ UNCHANGED <<cfgVars, runVars, lib, w>>

\* _build_PQ(polyterms) for the same library, as _set_Ptensors calls it
BuildPQ ==
    /\ built # None /\ built.PQ = None /\ lib.missing = None
    /\ built' = [built EXCEPT !.PQ = build_PQ(powers_(lib.n_tgts, lib.include_bias))]
    /\ UNCHANGED <<cfgVars, runVars, lib, w>>

\* the constraint rows and the quadratic projection applied to a
\* coefficient matrix w with entries of -1 and 1, the first of them 1 (the
\* rows and PQ are linear in w, so -w behaves as w)
ApplyToW ==
    /\ built # None /\ built.PQ # None /\ built.PM = None /\ w = None
    /\ \E n \in 0..MostNonzero(lib.n_tgts, lib.include_bias) :
       \E pos \in Ascending(n, Cardinality(DOMAIN built.constraints.lhs[1]) * lib.n_tgts) :
       \E val \in {v \in [1..n -> {-1, 1}] : n = 0 \/ v[1] = 1} :
       LET w_ == WMatrix(Cardinality(DOMAIN built.constraints.lhs[1]), lib.n_tgts, pos, val) IN
          /\ w' = w_
          /\ built' = [ built EXCEPT
                          !.Cw = [c \in 1..Len(built.constraints.lhs) |->
                                     RowDot(built.constraints.lhs[c], w')],
                          !.Q = Qijk(built.PQ, w') ]
    /\ UNCHANGED <<cfgVars, runVars, lib>>

\* the rest of _set_Ptensors: the transposed and the summed tensor
SetPtensors ==
    /\ built # None /\ built.PQ # None /\ built.PM = None /\ w = None
    /\ built' = [built EXCEPT !.PT = PT_tensor(built.PQ),
                              !.PM = PM_tensor(built.PQ, PT_tensor(built.PQ))]
    /\ UNCHANGED <<cfgVars, runVars, lib, w>>

NextCons ==
    MakeConstraints \/ MakeConstraintsIncomplete \/ BuildPQ \/ SetPtensors \/ ApplyToW

SpecCons == InitCons /\ [][NextCons]_vars

\* ---------------------------------------------- properties under SpecCons

\* the number of k-element subsets of an n-element set
Binomial(n, k3) == Cardinality({S \in SUBSET (1..n) : Cardinality(S) = k3})

\* C7: for every r >= 2, _make_constraints(r) returns r + 2 C(r,2) + C(r,3)
\* rows (and as many right hand sides); for r = 2 that is 4.
C7_RowCount ==
    (built # None /\ lib.missing = None) =>
        /\ lib.n_tgts >= 2
        /\ Len(built.constraints.lhs)
              = lib.n_tgts + 2 * Binomial(lib.n_tgts, 2) + Binomial(lib.n_tgts, 3)
        /\ Len(built.constraints.rhs) = Len(built.constraints.lhs)
        /\ lib.n_tgts = 2 => Len(built.constraints.lhs) = 4

\* the builder ran for the largest number of targets
C7_Witness == built # None /\ lib.missing = None /\ lib.n_tgts = MaxR /\ Len(built.constraints.lhs) > 4

\* Q_ijk + Q_jki + Q_kij = 0 for all index triples, repeated ones included
FullyAntisymmetric(Q) ==
    \A i \in DOMAIN Q : \A j \in DOMAIN Q : \A k3 \in DOMAIN Q :
        Q[i][j][k3] + Q[j][k3][i] + Q[k3][i][j] = 0

\* C8: for r = 3, every row of the constraint matrix is zero on every
\* coefficient matrix w whose quadratic tensor is fully antisymmetric.
C8_RowsVanishOnAntisymmetric ==
    (built # None /\ built.Q # None /\ lib.n_tgts = 3 /\ FullyAntisymmetric(built.Q))
        => \A c \in 1..Len(built.Cw) : built.Cw[c] = 0

\* a fully antisymmetric w for r = 3 with nonzero quadratic coefficients
C8_Witness ==
    /\ built # None /\ built.Q # None /\ lib.n_tgts = 3
    /\ FullyAntisymmetric(built.Q)
    /\ \E i \in 0..2 : \E j \in 0..2 : \E k3 \in 0..2 : built.Q[i][j][k3] # 0

\* the column of the term x_j * x_k (x_j^2 for j = k) in the library
ColumnOf(j, k3) ==
    LET terms == powers_(lib.n_tgts, lib.include_bias)
    IN  CHOOSE t \in DOMAIN terms :
            \A i \in DOMAIN terms[t] :
                terms[t][i] = (IF i = j THEN 1 ELSE 0) + (IF i = k3 THEN 1 ELSE 0)

\* C13: for every r >= 2, for each target i and ordered pair (j, k) the
\* tensor of _build_PQ has exactly one nonzero entry PQ[i,j,k,i,t]: 1.0 at
\* the column of x_j^2 when j = k, 0.5 at the column of x_j x_k when j # k.
\* All other entries are zero, so PQ is unchanged by swapping j and k, and
\* pure-term columns are nonzero only where j = k.
C13_PQEntries ==
    (built # None /\ built.PQ # None /\ w = None /\ built.PM = None) =>
        LET PQ == built.PQ
            T == 0..(lib.n_tgts - 1)
        IN  /\ lib.n_tgts >= 2
            /\ \A a \in T : \A j \in T : \A k3 \in T : \A d \in T :
                  \A e \in DOMAIN PQ[a][j][k3][d] :
                    /\ PQ[a][j][k3][d][e] =
                          (IF a = d /\ e = ColumnOf(j, k3)
                           THEN (IF j = k3 THEN 2 ELSE 1) ELSE 0)
                    /\ PQ[a][j][k3][d][e] = PQ[a][k3][j][d][e]
                    /\ (PQ[a][j][k3][d][e] # 0 /\ (\E i \in T : e = ColumnOf(i, i)))
                          => j = k3

\* the tensor was built for the largest number of targets
C13_Witness ==
    /\ built # None /\ built.PQ # None /\ lib.n_tgts = MaxR
    /\ built.PQ[0][0][1][0][ColumnOf(1, 0)] = 1
    /\ built.PQ[1][1][1][1][ColumnOf(1, 1)] = 2

\* C14 as stated: PM_ is the sum of PQ over the three cyclic permutations
\* of its index axes.
C14_PMCyclicSum ==
    (built # None /\ built.PM # None) =>
        \A a \in DOMAIN built.PQ : \A j \in DOMAIN built.PQ : \A k3 \in DOMAIN built.PQ :
            \A d \in DOMAIN built.PQ : \A e \in DOMAIN built.PQ[a][j][k3][d] :
                built.PM[a][j][k3][d][e] =
                    built.PQ[a][j][k3][d][e] + built.PQ[j][k3][a][d][e]
                        + built.PQ[k3][a][j][d][e]

\* C14 amended: PM_ is the sum of PQ and of PQ with its first two index
\* axes exchanged, PM[a,b,c,d,e] = PQ[a,b,c,d,e] + PQ[b,a,c,d,e], for every r.
C14_PMSumWithTranspose ==
    (built # None /\ built.PM # None) =>
        \A a \in DOMAIN built.PQ : \A j \in DOMAIN built.PQ : \A k3 \in DOMAIN built.PQ :
            \A d \in DOMAIN built.PQ : \A e \in DOMAIN built.PQ[a][j][k3][d] :
                built.PM[a][j][k3][d][e] =
                    built.PQ[a][j][k3][d][e] + built.PQ[j][a][k3][d][e]

\* the summed tensor for the largest number of targets, with an entry that
\* comes from the exchanged part alone
C14_Witness ==
    /\ built # None /\ built.PM # None /\ lib.n_tgts = MaxR
    /\ built.PQ[1][0][0][0][ColumnOf(0, 1)] = 0
    /\ built.PM[1][0][0][0][ColumnOf(0, 1)] = 1

\* C15: whenever a mixed quadratic term required for some pair or triple of
\* variables is missing from the term index the constraint builders are
\* given, they fail with an error and return no constraint system (every
\* r >= 2, every such incomplete index).
C15_IncompleteIndexRaises ==
    (built # None /\ lib.missing # None) => built.constraints.raised # "none"

\* C16: for r in {2, 3}, every coefficient matrix w on which all rows of the
\* _make_constraints matrix are zero has a quadratic tensor Q with
\* Q_ijk + Q_jki + Q_kij = 0 for all index triples, repeated ones included.
C16_ZeroRowsGiveAntisymmetric ==
    (built # None /\ built.Q # None /\ lib.n_tgts \in {2, 3}
         /\ \A c \in 1..Len(built.Cw) : built.Cw[c] = 0)
        => FullyAntisymmetric(built.Q)

\* a w for r = 2 with nonzero quadratic coefficients on which all four rows
\* are zero
C16_Witness ==
    /\ built # None /\ built.Q # None /\ lib.n_tgts = 2
    /\ \A c \in 1..Len(built.Cw) : built.Cw[c] = 0
    /\ \E i \in 0..1 : \E j \in 0..1 : \E k3 \in 0..1 : built.Q[i][j][k3] # 0

\* =========================================================================
\* Fits repeated on one optimizer with its constraint matrix
\* =========================================================================

\* the constraint matrix as __init__ hands it to the base class for
\* method "global" without constraints of the caller (mod_matrix the
\* identity): transposed to (n_tgt, n_feature) for the order "target", then
\* each row flattened
init_constraint_lhs(lhs, constraint_order) ==
    [c \in 1..Len(lhs) |->
        LET nf == Cardinality(DOMAIN lhs[c])
            nt == Cardinality(DOMAIN lhs[c][0])
        IN  [q \in 0..(nf * nt - 1) |->
                IF constraint_order = "target"
                THEN lhs[c][q % nf][q \div nf]
                ELSE lhs[c][q \div nt][q % nt]]]

\* the optimizers fitted repeatedly: method "global", one iteration
OrderArgs ==
    {a \in FitArgs : /\ a.method = "global" /\ a.max_iter = 1 /\ a.threshold = 1
                      /\ a.A0 = None /\ a.alpha_A = None}

\* the state when _reduce is entered for the first time on an optimizer of
\* method "global"; the coefficient matrices of the driver stay the small
\* ones of the driver model, the constraint matrix is the one of the library
InitOrder ==
    /\ self \in {post_init_guard(init_attrs(a).pre).self : a \in OrderArgs}
    /\ pre = None /\ err = "none" /\ warnings = <<>>
    /\ coef_ = Transpose(CoefMat(0, 0))
    /\ initial_guess = coef_
    /\ pc = "start" /\ k = 0
    /\ coef_sparse = None /\ coef_prev = None
    /\ trap_ctr = None /\ trap_prev_ctr = None /\ A = None
    /\ A_history_ = <<>> /\ m_history_ = <<>> /\ p_history_ = <<>>
    /\ PW_history_ = <<>> /\ PWeigs_history_ = <<>> /\ history_ = <<>>
    /\ objective_history = <<>>
    /\ exit = "none"
    /\ calls = [coef |-> 0, cert |-> 0]
    /\ lib \in [n_tgts : 2..MaxR, include_bias : BOOLEAN, missing : {None}]
    /\ w = None
    /\ \E constraint_order \in {"feature", "target"} :
       \E constraint_lhs \in {make_constraints(lib.n_tgts, lib.include_bias).lhs} :
          built = [ constraint_lhs |->
                        init_constraint_lhs(constraint_lhs, constraint_order),
                    constraint_order |-> constraint_order,
                    use_constraints |-> TRUE,
                    n_features |-> Cardinality(DOMAIN powers_(lib.n_tgts, lib.include_bias)),
                    n_reduce |-> 0 ]

\* fit called again on the fitted optimizer: the initial guess is set anew
\* and _reduce is entered with fresh locals; the attributes stay
refit ==
    /\ pc = "done" /\ built.n_reduce < MaxFits
    /\ coef_' = Transpose(CoefMat(0, 0))
    /\ initial_guess' = coef_'
    /\ pc' = "start" /\ k' = 0
    /\ coef_sparse' = None /\ coef_prev' = None
    /\ trap_ctr' = None /\ trap_prev_ctr' = None /\ A' = None
    /\ exit' = "none"
    /\ calls' = [coef |-> 0, cert |-> 0]
    /\ warnings' = <<>>
    /\ UNCHANGED <<cfgVars, A_history_, m_history_, p_history_, PW_history_,
                   PWeigs_history_, history_, objective_history, consVars>>

NextOrder == Next \/ refit

SpecOrder == InitOrder /\ [][NextOrder]_vars

\* ---------------------------------------------- properties under SpecOrder

\* C17: on an optimizer with constraint_order "target" the constraint matrix
\* the coefficient update applies is the same in every call of _reduce: a
\* second or later _reduce does not reorder self.constraint_lhs again.
C17_SameMatrixEveryCall ==
    [][(pc = "start" /\ pc' = "loop" /\ built.n_reduce >= 1)
          => built'.constraint_lhs = built.constraint_lhs]_vars

====
